---- MODULE Spec2Model ----
(***************************************************************************)
(* Confluence space exporter: the file-name sanitizer (clean_filename),    *)
(* the markdown clean-up of extract_page_content and                       *)
(* process_content_to_markdown, the export run of one space                *)
(* (scrape_space and scrape_space_to_csv) with its attachment downloads,   *)
(* the page hierarchy (build_hierarchy and its sort) and the rewriting of  *)
(* Confluence markup (process_confluence_content and                       *)
(* process_content_to_markdown).                                           *)
(*                                                                         *)
(* Text is a sequence of one-character strings; a path below the space     *)
(* directory is a sequence of such names.                                  *)
(***************************************************************************)
EXTENDS Integers, Sequences, FiniteSets, TLC

VARIABLES
    sanPc, sanIn, sanOut, sanAgain,          \* clean_filename applied once and twice
    normPc, normIn, normOut, normAgain,      \* the markdown clean-up applied once and twice
    variant,                                 \* "md": confluence_spaces_exporter.py, "csv": ..._in_csv.py
    pc,                \* position of the export run of one space
    pages,             \* the pages get_space_pages returned, in arrival order
    pi,                \* index in pages of the loop over the pages
    atts, ai,          \* the attachments of the current page and the index of the loop over them
    tried,             \* download_attachment: the candidates contacted so far, with their outcomes
    response,          \* download_attachment: the local variable response
    dlResult,          \* what download_attachment returned
    files,             \* the files below the space directory: path -> content
    all_attachments,   \* scrape_space: filename -> local path
    total_attachments, \* scrape_space: the counter of downloaded attachments
    sorted_pages, si,  \* scrape_space: the hierarchy items in saving order and the loop index
    saved_files,       \* scrape_space: the paths save_page returned
    pages_data,        \* scrape_space_to_csv: the rows of the pages table
    attachments_data,  \* scrape_space_to_csv: the rows of the attachments table
    index,             \* the generated README.md of the space, once written
    listed,            \* ids of the pages whose attachment list has been requested
    known,             \* ids of the attachments the attachment lists returned
    attempted,         \* ids of the attachments whose download has returned
    notFound,          \* ids of the attachments whose download returned None
    transpiled,        \* ids of the pages whose body has been given to the transpiler
    trPc,              \* the transpiler alone: "in" before the call, "out" after it
    content_html,      \* the transpiler alone: the parsed body, a list of nodes
    attachments_map,   \* the transpiler alone: the filenames that are keys of the map
    processed,         \* the transpiler alone: what the call returned or that it raised
    hierPc,            \* the hierarchy alone: position
    arrival,           \* the hierarchy alone: a page list in arrival order
    rearranged,        \* the hierarchy alone: the same pages in another order
    sorted_arrival,    \* the hierarchy alone: the sorted entries built from arrival
    sorted_rearranged, \* the hierarchy alone: the sorted entries built from rearranged
    index_arrival,     \* the hierarchy alone: the page entries of the index of arrival
    index_rearranged,  \* the hierarchy alone: the page entries of the index of rearranged
    fibPc,             \* prepare_for_fibery: position
    input_dir,         \* prepare_for_fibery: the files below input_dir, as relative paths
    attachments_dir,   \* prepare_for_fibery: output attachments/, file name -> source path
    attachment_count,  \* prepare_for_fibery: attachment_count
    walk_root,         \* prepare_for_fibery: the directory os.walk is at in the loop over the pages
    walked,            \* prepare_for_fibery: the files the loop over the pages has been at
    pages_dir,         \* prepare_for_fibery: output pages/, file name -> source path
    page_count,        \* prepare_for_fibery: page_count
    summary,           \* prepare_for_fibery: the counts written to README.md
    fn,                \* paging: the function called, get_space_pages or get_available_spaces
    gspPc,             \* paging: position
    start,             \* paging: start
    all_pages,         \* paging: all_pages (all_spaces)
    returned,          \* paging: the value returned
    requests,          \* paging: the start parameter of every request sent, in order
    batches            \* paging: the answer to every request, in order

sanVars  == <<sanPc, sanIn, sanOut, sanAgain>>
normVars == <<normPc, normIn, normOut, normAgain>>
dlVars   == <<tried, response, dlResult>>
loopVars == <<pi, atts, ai, sorted_pages, si>>
outVars  == <<files, all_attachments, total_attachments, saved_files, pages_data,
              attachments_data, index>>
histVars == <<listed, known, attempted, notFound, transpiled>>
expVars  == <<pc, pages, loopVars, dlVars, outVars, histVars>>
trVars   == <<trPc, content_html, attachments_map, processed>>
hierVars == <<hierPc, arrival, rearranged, sorted_arrival, sorted_rearranged,
              index_arrival, index_rearranged>>
fibVars  == <<fibPc, input_dir, attachments_dir, attachment_count, walk_root, walked,
              pages_dir, page_count, summary>>
gspVars  == <<fn, gspPc, start, all_pages, returned, requests, batches>>
vars     == <<sanVars, normVars, variant, expVars, trVars, hierVars, fibVars, gspVars>>

(***************************************************************************)
(* Bounds of the model.                                                    *)
(***************************************************************************)
MaxTail == 3
MaxTextLen == 6
MaxPages == 2
MaxFiles == 4
MaxBatches == 2

(***************************************************************************)
(* Generic helpers on sequences.                                           *)
(***************************************************************************)
Last(s) == s[Len(s)]

RECURSIVE SeqsUpTo(_, _)
SeqsUpTo(S, n) ==
    IF n = 0 THEN {<<>>}
    ELSE LET shorter == SeqsUpTo(S, n - 1)
         IN  shorter \cup {Append(s, c) : s \in {t \in shorter : Len(t) = n - 1}, c \in S}

Repeat(c, n) == [i \in 1..n |-> c]

(***************************************************************************)
(* clean_filename                                                          *)
(***************************************************************************)
\* the character class [<>:"/\\|?*]
InvalidChars == {"<", ">", ":", "\"", "/", "\\", "|", "?", "*"}

\* the characters \s matches
Whitespace == {" ", "\t", "\n", "\r", "\f"}

\* the characters of strip('._')
StripChars == {".", "_"}

\* if len(filename) > 100: filename = filename[:100]
NameLimit == 100

\* re.sub(r'[<>:"/\\|?*]', '_', filename)
ReplaceInvalid(s) == [i \in 1..Len(s) |-> IF s[i] \in InvalidChars THEN "_" ELSE s[i]]

\* s[lo..hi] with every run of whitespace collapsed to one underscore; a
\* whitespace character that follows another one belongs to the same run
RECURSIVE CollapseRange(_, _, _)
CollapseRange(s, lo, hi) ==
    IF lo > hi THEN <<>>
    ELSE IF lo = hi
         THEN IF s[lo] \in Whitespace
              THEN IF lo > 1 /\ s[lo - 1] \in Whitespace THEN <<>> ELSE <<"_">>
              ELSE <<s[lo]>>
         ELSE LET mid == (lo + hi) \div 2
              IN  CollapseRange(s, lo, mid) \o CollapseRange(s, mid + 1, hi)

\* a plausible slip: r'\s' in place of r'\s+'
ReplaceWhitespaceEach(s) == [i \in 1..Len(s) |-> IF s[i] \in Whitespace THEN "_" ELSE s[i]]

\* re.sub(r'\s+', '_', filename)
ReplaceWhitespace(s) == CollapseRange(s, 1, Len(s))

\* str.strip(chars)
Strip(s, chars) ==
    LET keep == {i \in 1..Len(s) : s[i] \notin chars}
    IN  IF keep = {} THEN <<>>
        ELSE LET lo == CHOOSE i \in keep : \A j \in keep : i <= j
                 hi == CHOOSE i \in keep : \A j \in keep : j <= i
             IN  SubSeq(s, lo, hi)

\* a plausible slip: the length limit left out
TruncateNever(s) == s

\* if len(filename) > 100: filename = filename[:100]
Truncate(s) == IF Len(s) > NameLimit THEN SubSeq(s, 1, NameLimit) ELSE s

clean_filename(filename) ==
    Truncate(Strip(ReplaceWhitespace(ReplaceInvalid(filename)), StripChars))

(***************************************************************************)
(* The export run of one space: data                                       *)
(***************************************************************************)
\* the value None of a path: no path
None == <<>>

\* the value None of response: no response
NoResponse == [url |-> "none", status |-> "none"]

\* README.md not written yet
NoIndex == [written |-> FALSE]

EmptyMap == [k \in {} |-> None]

\* a mapping that takes no entry
PutNever(m, k, v) == m

\* d[k] = v
Put(m, k, v) == [x \in (DOMAIN m) \cup {k} |-> IF x = k THEN v ELSE m[x]]

\* The pages of the space as the server holds them.  Titles are unique in a
\* space; a page list that lacks a page named as ancestor has a dangling ancestor.
RootRef  == [id |-> "p1", title |-> <<"R">>]
ChildRef == [id |-> "p2", title |-> <<"a", ":", "b">>]

ServerPages ==
    { [id |-> "p1", title |-> <<"R">>,           ancestors |-> <<>>],
      [id |-> "p2", title |-> <<"a", ":", "b">>, ancestors |-> <<RootRef>>],
      [id |-> "p3", title |-> <<"a", "?", "b">>, ancestors |-> <<RootRef>>],
      [id |-> "p4", title |-> <<"g">>,           ancestors |-> <<RootRef, ChildRef>>] }

\* The attachments of each page as the server holds them; link tells whether
\* the descriptor carries _links.download.
ServerAttachments(page_id) ==
    CASE page_id = "p1" -> << [id |-> "a1", title |-> <<"l", ".", "p">>, link |-> TRUE] >>
      [] page_id = "p2" -> << [id |-> "a2", title |-> <<"l", ".", "p">>, link |-> FALSE] >>
      [] page_id = "p3" -> << [id |-> "a3", title |-> <<"l", " ", "p">>, link |-> TRUE] >>
      [] OTHER          -> << >>

\* the page lists get_space_pages can return: distinct pages in any order
RECURSIVE PageListsUpTo(_)
PageListsUpTo(n) ==
    IF n = 0 THEN {<<>>}
    ELSE LET shorter == PageListsUpTo(n - 1)
         IN  shorter \cup
             {Append(l, p) : l \in {t \in shorter : Len(t) = n - 1},
                             p \in ServerPages} 

PageLists == {l \in PageListsUpTo(MaxPages) : \A i, j \in 1..Len(l) : i # j => l[i].id # l[j].id}

PageIds(l) == {l[i].id : i \in 1..Len(l)}

(***************************************************************************)
(* Paths and names                                                         *)
(***************************************************************************)
AttachmentsDir == <<"a", "t", "t", "a", "c", "h", "m", "e", "n", "t", "s">>
MdSuffix       == <<".", "m", "d">>
ReadmeName     == <<"R", "E", "A", "D", "M", "E", ".", "m", "d">>
PagesCsvName   == <<"_", "p", "a", "g", "e", "s", ".", "c", "s", "v">>
AttsCsvName    == <<"_", "a", "t", "t", "a", "c", "h", "m", "e", "n", "t", "s", ".", "c", "s", "v">>

\* os.path.join(base, *names): an empty name adds no level
JoinPath(base, names) == base \o SelectSeq(names, LAMBDA n : n # <<>>)

Digits == <<"0", "1", "2", "3", "4", "5", "6", "7", "8", "9">>

\* str(counter)
RECURSIVE Decimal(_)
Decimal(n) == IF n < 10 THEN <<Digits[n + 1]>> ELSE Decimal(n \div 10) \o <<Digits[(n % 10) + 1]>>

\* os.path.splitext on the last name of a path: the extension starts at the
\* last dot that has a character other than a dot before it
SplitExt(name) ==
    LET dots == {i \in 1..Len(name) : name[i] = "." /\ \E j \in 1..(i - 1) : name[j] # "."}
    IN  IF dots = {} THEN <<name, <<>>>>
        ELSE LET d == CHOOSE i \in dots : \A j \in dots : j <= i
             IN  <<SubSeq(name, 1, d - 1), SubSeq(name, d, Len(name))>>

\* os.path.exists for a path below the attachments directory: a written file,
\* or the directory itself (a path whose last name is empty)
Exists(fs, path) == path \in DOMAIN fs \/ Last(path) = <<>>

\* f"{name}_{counter}{ext}" with name, ext = os.path.splitext(original_path)
Suffixed(original, counter) ==
    LET parts == SplitExt(Last(original))
    IN  SubSeq(original, 1, Len(original) - 1) \o
        << parts[1] \o <<"_">> \o Decimal(counter) \o parts[2] >>

\* while os.path.exists(file_path): ...; counter += 1
RECURSIVE DedupeFrom(_, _, _)
DedupeFrom(fs, original, counter) ==
    LET candidate == IF counter = 0 THEN original ELSE Suffixed(original, counter)
    IN  IF Exists(fs, candidate) THEN DedupeFrom(fs, original, counter + 1) ELSE candidate

\* the path download_attachment writes to: scrape_space takes the cleaned name
\* as it is, scrape_space_to_csv counts up until the name is unused
AttachmentPath(v, fs, filename) ==
    LET original == <<AttachmentsDir, clean_filename(filename)>>
    IN  IF v = "csv" THEN DedupeFrom(fs, original, 0) ELSE original

\* download_urls, None removed
CandidateUrls(att) ==
    IF att.link THEN <<"links.download", "content.data", "wiki.download", "download">>
    ELSE <<"content.data", "wiki.download", "download">>

(***************************************************************************)
(* build_hierarchy and the order of saving                                 *)
(***************************************************************************)
\* the code points of the characters of the titles
CodePoint(c) ==
    CASE c = ":" -> 58 [] c = "?" -> 63 [] c = "R" -> 82
      [] c = "a" -> 97 [] c = "b" -> 98 [] c = "g" -> 103

\* a < b for two strings
RECURSIVE StrLess(_, _)
StrLess(a, b) ==
    IF b = <<>> THEN FALSE
    ELSE IF a = <<>> THEN TRUE
    ELSE IF a[1] # b[1] THEN CodePoint(a[1]) < CodePoint(b[1])
    ELSE StrLess(Tail(a), Tail(b))

\* p < q for two lists of strings
RECURSIVE PathLess(_, _)
PathLess(p, q) ==
    IF q = <<>> THEN FALSE
    ELSE IF p = <<>> THEN TRUE
    ELSE IF p[1] # q[1] THEN StrLess(p[1], q[1])
    ELSE PathLess(Tail(p), Tail(q))

\* a key of the level alone
ItemLessLevelOnly(x, y) == x.level < y.level

\* key=lambda x: (x['level'], x['path'])
ItemLess(x, y) == x.level < y.level \/ (x.level = y.level /\ PathLess(x.path, y.path))

\* sorted(): stable, an item goes after the items that are not greater
RECURSIVE SortedInsert(_, _)
SortedInsert(sorted, x) ==
    IF sorted = <<>> THEN <<x>>
    ELSE IF ItemLess(x, sorted[1]) THEN <<x>> \o sorted
    ELSE <<sorted[1]>> \o SortedInsert(Tail(sorted), x)

\* sorted() left out: the entries in the order given
Unsorted(items) == items

RECURSIVE SortItems(_)
SortItems(items) ==
    IF items = <<>> THEN <<>>
    ELSE SortedInsert(SortItems(SubSeq(items, 1, Len(items) - 1)), Last(items))

\* an entry whose path names every ancestor, in the page list or not
HierarchyItemAllAncestors(page, lookup) ==
    [page  |-> page,
     path  |-> [i \in 1..Len(page.ancestors) |-> page.ancestors[i].title] \o <<page.title>>,
     level |-> Len(page.ancestors)]

\* an entry whose level counts only the ancestors that are in the page list
HierarchyItemLevelOfPath(page, lookup) ==
    [page  |-> page,
     path  |-> [i \in 1..Len(SelectSeq(page.ancestors, LAMBDA a : a.id \in lookup)) |->
                   SelectSeq(page.ancestors, LAMBDA a : a.id \in lookup)[i].title]
               \o <<page.title>>,
     level |-> Len(SelectSeq(page.ancestors, LAMBDA a : a.id \in lookup))]

\* the entry of one page: the titles of the ancestors that are in the page
\* list, then its own title; level counts all the ancestors
HierarchyItem(page, lookup) ==
    [page  |-> page,
     path  |-> [i \in 1..Len(SelectSeq(page.ancestors, LAMBDA a : a.id \in lookup)) |->
                   SelectSeq(page.ancestors, LAMBDA a : a.id \in lookup)[i].title]
               \o <<page.title>>,
     level |-> Len(page.ancestors)]

build_hierarchy(ps) == [i \in 1..Len(ps) |-> HierarchyItem(ps[i], PageIds(ps))]

\* a file named by the title as it is, below the cleaned directories
SavePathRawTitle(item) ==
    IF Len(item.path) > 1
    THEN JoinPath(<<>>, [i \in 1..(Len(item.path) - 1) |-> clean_filename(item.path[i])])
         \o <<Last(item.path) \o MdSuffix>>
    ELSE <<item.page.title \o MdSuffix>>

\* the file save_page writes
SavePath(item) ==
    IF Len(item.path) > 1
    THEN JoinPath(<<>>, [i \in 1..(Len(item.path) - 1) |-> clean_filename(item.path[i])])
         \o <<clean_filename(Last(item.path)) \o MdSuffix>>
    ELSE <<clean_filename(item.page.title) \o MdSuffix>>

\* page_link of the index: '/'.join of the cleaned path, then ".md"
IndexLink(item) ==
    [i \in 1..Len(item.path) |->
        IF i = Len(item.path) THEN clean_filename(item.path[i]) \o MdSuffix
        ELSE clean_filename(item.path[i])]

\* the loop "for item in sorted_pages" that writes the page hierarchy of the
\* index: one line per entry, indented by level, with title and page_link
IndexEntries(sorted) ==
    [i \in 1..Len(sorted) |->
        [id    |-> sorted[i].page.id,
         title |-> sorted[i].page.title,
         level |-> sorted[i].level,
         link  |-> IndexLink(sorted[i])]]

(***************************************************************************)
(* Specification of clean_filename alone: a name is drawn, cleaned, and    *)
(* the result cleaned again.  The names are a run of n letters, n around   *)
(* the length limit or 0, followed by a short tail over SanAlphabet.       *)
(***************************************************************************)
SanAlphabet == {"a", ".", "_", " ", "\t", "/"}

PadLengths == {0} \cup ((NameLimit - MaxTail) .. NameLimit)

SanInputs == {Repeat("a", n) \o t : n \in PadLengths, t \in SeqsUpTo(SanAlphabet, MaxTail)}

SanIdle ==
    /\ sanPc = "idle" /\ sanIn = <<>> /\ sanOut = <<>> /\ sanAgain = <<>>

NormIdle ==
    /\ normPc = "idle" /\ normIn = <<>> /\ normOut = <<>> /\ normAgain = <<>>

ExpIdle ==
    /\ pc = "idle" /\ pages = <<>> /\ pi = 0 /\ atts = <<>> /\ ai = 0
    /\ tried = <<>> /\ response = NoResponse /\ dlResult = None
    /\ files = EmptyMap /\ all_attachments = EmptyMap /\ total_attachments = 0
    /\ sorted_pages = <<>> /\ si = 0 /\ saved_files = <<>>
    /\ pages_data = <<>> /\ attachments_data = <<>> /\ index = NoIndex
    /\ listed = {} /\ known = {} /\ attempted = {} /\ notFound = {} /\ transpiled = {}

TrIdle ==
    /\ trPc = "idle" /\ content_html = <<>> /\ attachments_map = {} /\ processed = <<>>

HierIdle ==
    /\ hierPc = "idle" /\ arrival = <<>> /\ rearranged = <<>>
    /\ sorted_arrival = <<>> /\ sorted_rearranged = <<>>
    /\ index_arrival = <<>> /\ index_rearranged = <<>>

FibIdle ==
    /\ fibPc = "idle" /\ input_dir = {} /\ attachments_dir = EmptyMap /\ attachment_count = 0
    /\ walk_root = <<>> /\ walked = {} /\ pages_dir = EmptyMap /\ page_count = 0
    /\ summary = NoIndex

GspIdle ==
    /\ fn = "none" /\ gspPc = "idle" /\ start = 0 /\ all_pages = <<>> /\ returned = <<>>
    /\ requests = <<>> /\ batches = <<>>

SanInit ==
    /\ sanPc = "in"
    /\ sanIn \in SanInputs
    /\ sanOut = <<>>
    /\ sanAgain = <<>>
    /\ NormIdle
    /\ ExpIdle
    /\ TrIdle
    /\ HierIdle
    /\ FibIdle
    /\ GspIdle
    /\ variant = "md"

\* safe_filename = self.clean_filename(filename)
Sanitize ==
    /\ sanPc = "in"
    /\ sanOut' = clean_filename(sanIn)
    /\ sanPc' = "once"
    /\ UNCHANGED <<sanIn, sanAgain, normVars, variant, expVars, trVars, hierVars, fibVars, gspVars>>

\* the cleaned name given to clean_filename again
Resanitize ==
    /\ sanPc = "once"
    /\ sanAgain' = clean_filename(sanOut)
    /\ sanPc' = "twice"
    /\ UNCHANGED <<sanIn, sanOut, normVars, variant, expVars, trVars, hierVars, fibVars, gspVars>>

SanNext == Sanitize \/ Resanitize

SpecSanitize == SanInit /\ [][SanNext]_vars

(***************************************************************************)
(* The export run of one space: scrape_space ("md") and                    *)
(* scrape_space_to_csv ("csv")                                             *)
(***************************************************************************)
Init ==
    /\ SanIdle
    /\ NormIdle
    /\ TrIdle
    /\ HierIdle
    /\ FibIdle
    /\ GspIdle
    /\ variant \in {"md", "csv"}
    /\ pages \in PageLists
    /\ pc = "start"
    /\ pi = 0 /\ atts = <<>> /\ ai = 0
    /\ tried = <<>> /\ response = NoResponse /\ dlResult = None
    /\ files = EmptyMap /\ all_attachments = EmptyMap /\ total_attachments = 0
    /\ sorted_pages = <<>> /\ si = 0 /\ saved_files = <<>>
    /\ pages_data = <<>> /\ attachments_data = <<>> /\ index = NoIndex
    /\ listed = {} /\ known = {} /\ attempted = {} /\ notFound = {} /\ transpiled = {}

\* the loop over the pages ends after one page
PageLoopDoneEarly(i, ps) == i >= 1

\* for i, page in enumerate(pages, 1): the loop has run for every page
PageLoopDone(i, ps) == i >= Len(ps)

\* pages = self.get_space_pages(space_key); if not pages: return []
StartExport ==
    /\ pc = "start"
    /\ IF pages = <<>>
       THEN pc' = "done" /\ pi' = pi
       ELSE /\ pi' = 1
            /\ pc' = IF variant = "md" THEN "att_list" ELSE "transpile"
    /\ UNCHANGED <<sanVars, normVars, trVars, hierVars, fibVars, gspVars, variant, pages, atts, ai, sorted_pages, si,
                   dlVars, outVars, histVars>>

\* what follows the work on page pi: the next page, or the part after the loop.
\* scrape_space then builds the hierarchy and sorts it.
AfterPage ==
    IF ~PageLoopDone(pi, pages)
    THEN /\ pi' = pi + 1
         /\ pc' = IF variant = "md" THEN "att_list" ELSE "transpile"
         /\ UNCHANGED <<sorted_pages, si>>
    ELSE /\ pi' = pi
         /\ IF variant = "md"
            THEN /\ sorted_pages' = SortItems(build_hierarchy(pages))
                 /\ si' = 1
                 /\ pc' = "save"
            ELSE /\ pc' = "write_csv"
                 /\ UNCHANGED <<sorted_pages, si>>

\* scrape_space_to_csv, one page: process_content_to_markdown, the hierarchy
\* path and the row of the pages table.  An exception of the transpiler is
\* caught nowhere in scrape_space_to_csv.
TranspileCsv(outcome) ==
    /\ pc = "transpile"
    /\ variant = "csv"
    /\ IF outcome = "raises"
       THEN /\ pc' = "aborted"
            /\ UNCHANGED <<transpiled, pages_data>>
       ELSE /\ pc' = "att_list"
            /\ transpiled' = transpiled \cup {pages[pi].id}
            /\ pages_data' = Append(pages_data,
                                    [id    |-> pages[pi].id,
                                     path  |-> HierarchyItem(pages[pi], PageIds(pages)).path,
                                     level |-> Len(pages[pi].ancestors)])
    /\ UNCHANGED <<sanVars, normVars, trVars, hierVars, fibVars, gspVars, variant, pages, loopVars, dlVars, files,
                   all_attachments, total_attachments, saved_files, attachments_data,
                   index, listed, known, attempted, notFound>>

\* attachments = self.get_page_attachments(page_id): the list, [] on a status
\* other than 200; an exception of session.get or response.json() is caught
\* neither in get_page_attachments nor in the loop that calls it
FetchAttachmentList(outcome) ==
    /\ pc = "att_list"
    /\ IF outcome = "raises"
       THEN /\ pc' = "aborted"
            /\ UNCHANGED <<loopVars, known, listed>>
       ELSE /\ atts' = IF outcome = "ok" THEN ServerAttachments(pages[pi].id) ELSE <<>>
            /\ listed' = listed \cup {pages[pi].id}
            /\ known' = known \cup {atts'[i].id : i \in 1..Len(atts')}
            /\ IF atts' # <<>>
               THEN /\ ai' = 1
                    /\ pc' = "download"
                    /\ UNCHANGED <<pi, sorted_pages, si>>
               ELSE /\ ai' = 0
                    /\ AfterPage
    /\ tried' = <<>>
    /\ response' = NoResponse
    /\ dlResult' = None
    /\ UNCHANGED <<sanVars, normVars, trVars, hierVars, fibVars, gspVars, variant, pages, outVars, attempted, notFound,
                   transpiled>>

\* the loop over the candidates goes on after a successful transfer
LoopContinuesNoBreak(t, urls) == Len(t) < Len(urls)

\* for url in download_urls: ... if response.status_code == 200: break
LoopContinues(t, urls) ==
    /\ Len(t) < Len(urls)
    /\ (IF t = <<>> THEN TRUE ELSE Last(t).outcome # "ok")

\* download_attachment, one candidate: status 200 ("ok"), another status
\* ("status"), or an exception of session.get ("raises"), which leaves response
\* as it was
TryCandidate(outcome) ==
    /\ pc = "download"
    /\ LoopContinues(tried, CandidateUrls(atts[ai]))
    /\ LET url == CandidateUrls(atts[ai])[Len(tried) + 1]
       IN  /\ tried' = Append(tried, [url |-> url, outcome |-> outcome])
           /\ response' = IF outcome = "raises" THEN response
                          ELSE [url |-> url, status |-> outcome]
    /\ UNCHANGED <<sanVars, normVars, trVars, hierVars, fibVars, gspVars, variant, pc, pages, loopVars, dlResult, outVars,
                   histVars>>

\* the test after the loop without the status
DownloadFailedNoStatus(r) == r = NoResponse

\* if not response or response.status_code != 200
DownloadFailed(r) == r = NoResponse \/ r.status # "ok"

\* download_attachment after the loop: None when no candidate succeeded,
\* otherwise the payload of response is written; open() or the streaming may
\* raise, which the except clause turns into None
FinishDownload(io) ==
    /\ pc = "download"
    /\ ~LoopContinues(tried, CandidateUrls(atts[ai]))
    /\ IF DownloadFailed(response)
       THEN /\ io = "ok"
            /\ dlResult' = None
            /\ files' = files
       ELSE LET path == AttachmentPath(variant, files, atts[ai].title)
                opens == Last(path) # <<>>
            IN  /\ (~opens) => io = "open_raises"
                /\ IF io = "ok"
                   THEN /\ files' = Put(files, path,
                                        [att |-> atts[ai].id, url |-> response.url,
                                         complete |-> TRUE])
                        /\ dlResult' = path
                   ELSE IF io = "stream_raises"
                   THEN /\ files' = Put(files, path,
                                        [att |-> atts[ai].id, url |-> response.url,
                                         complete |-> FALSE])
                        /\ dlResult' = None
                   ELSE /\ files' = files
                        /\ dlResult' = None
    /\ pc' = "returned"
    /\ UNCHANGED <<sanVars, normVars, trVars, hierVars, fibVars, gspVars, variant, pages, loopVars, tried, response,
                   all_attachments, total_attachments, saved_files, pages_data,
                   attachments_data, index, histVars>>

\* the caller with the result of download_attachment: scrape_space records a
\* path in all_attachments and counts it, scrape_space_to_csv appends a row;
\* then the next attachment or the next page
RecordResult ==
    /\ pc = "returned"
    /\ attempted' = attempted \cup {atts[ai].id}
    /\ notFound' = IF dlResult = None THEN notFound \cup {atts[ai].id} ELSE notFound
    /\ IF variant = "md"
       THEN /\ IF dlResult # None
               THEN /\ all_attachments' = Put(all_attachments, atts[ai].title, dlResult)
                    /\ total_attachments' = total_attachments + 1
               ELSE UNCHANGED <<all_attachments, total_attachments>>
            /\ UNCHANGED attachments_data
       ELSE /\ attachments_data' = Append(attachments_data,
                                          [filename |-> atts[ai].title,
                                           page     |-> pages[pi].id,
                                           path     |-> dlResult])
            /\ UNCHANGED <<all_attachments, total_attachments>>
    /\ IF ai < Len(atts)
       THEN /\ ai' = ai + 1
            /\ pc' = "download"
            /\ UNCHANGED <<pi, sorted_pages, si>>
       ELSE /\ ai' = ai
            /\ AfterPage
    /\ tried' = <<>>
    /\ response' = NoResponse
    /\ dlResult' = None
    /\ UNCHANGED <<sanVars, normVars, trVars, hierVars, fibVars, gspVars, variant, pages, atts, files, saved_files,
                   pages_data, index, listed, known, transpiled>>

\* scrape_space, one page of sorted_pages: save_page transpiles the body with
\* all_attachments and writes the file; an exception is caught and logged
SavePage(outcome) ==
    /\ pc = "save"
    /\ LET item == sorted_pages[si]
       IN  /\ transpiled' = transpiled \cup {item.page.id}
           /\ IF outcome = "ok"
              THEN /\ files' = Put(files, SavePath(item), [page |-> item.page.id])
                   /\ saved_files' = Append(saved_files, SavePath(item))
              ELSE UNCHANGED <<files, saved_files>>
    /\ IF si < Len(sorted_pages)
       THEN si' = si + 1 /\ pc' = pc
       ELSE si' = si /\ pc' = "index"
    /\ UNCHANGED <<sanVars, normVars, trVars, hierVars, fibVars, gspVars, variant, pages, pi, atts, ai, sorted_pages, dlVars,
                   all_attachments, total_attachments, pages_data, attachments_data,
                   index, listed, known, attempted, notFound>>

\* scrape_space: README.md of the space and, when there are attachments,
\* attachments/README.md
WriteIndex ==
    /\ pc = "index"
    /\ index' = [written     |-> TRUE,
                 pages       |-> Len(pages),
                 attachments |-> total_attachments,
                 files       |-> DOMAIN all_attachments,
                 entries     |-> IndexEntries(sorted_pages)]
    /\ files' = LET withIndex == Put(files, <<ReadmeName>>, [readme |-> "index"])
                IN  IF DOMAIN all_attachments # {}
                    THEN Put(withIndex, <<AttachmentsDir, ReadmeName>>, [readme |-> "attachments"])
                    ELSE withIndex
    /\ pc' = "done"
    /\ UNCHANGED <<sanVars, normVars, trVars, hierVars, fibVars, gspVars, variant, pages, loopVars, dlVars, all_attachments,
                   total_attachments, saved_files, pages_data, attachments_data, histVars>>

\* scrape_space_to_csv: the two tables
WriteCsv ==
    /\ pc = "write_csv"
    /\ files' = Put(Put(files, <<PagesCsvName>>, [table |-> pages_data]),
                    <<AttsCsvName>>, [table |-> attachments_data])
    /\ pc' = "done"
    /\ UNCHANGED <<sanVars, normVars, trVars, hierVars, fibVars, gspVars, variant, pages, loopVars, dlVars, all_attachments,
                   total_attachments, saved_files, pages_data, attachments_data, index,
                   histVars>>

Next ==
    \/ StartExport
    \/ \E outcome \in {"ok", "raises"} : TranspileCsv(outcome)
    \/ \E outcome \in {"ok", "status", "raises"} : FetchAttachmentList(outcome)
    \/ \E outcome \in {"ok", "status", "raises"} : TryCandidate(outcome)
    \/ \E io \in {"ok", "open_raises", "stream_raises"} : FinishDownload(io)
    \/ RecordResult
    \/ \E outcome \in {"ok", "transpile_raises", "write_raises"} : SavePage(outcome)
    \/ WriteIndex
    \/ WriteCsv

Spec == Init /\ [][Next]_vars


(***************************************************************************)
(* Claims about the export run                                             *)
(***************************************************************************)
IsAttachmentFile(fs, p) == "att" \in DOMAIN fs[p]

\* C4: a successful download writes to a path that no earlier download of the
\* run wrote to: no attachment file already written is replaced.
C4_NoResolveOverwrites ==
    [][(pc = "download" /\ pc' = "returned" /\ dlResult' # None) =>
          \A p \in DOMAIN files : IsAttachmentFile(files, p) => files'[p] = files[p]]_vars

\* C4: two attachments named l.p of two different pages have both been downloaded.
C4_Witness ==
    /\ {"a1", "a2"} \subseteq attempted
    /\ notFound = {}

\* C5: pages with different ids are written to different files: no page file
\* written earlier in the run is written again by a later page.
C5_DistinctDestinations ==
    \A i, j \in 1..Len(saved_files) : i # j => saved_files[i] # saved_files[j]

\* C5: two pages whose titles differ only in characters clean_filename replaces have both been saved.
C5_Witness ==
    /\ pc = "done"
    /\ Len(saved_files) = 2
    /\ {"p2", "p3"} \subseteq PageIds(pages)

C7_FirstSuccessWins ==
    pc \in {"download", "returned"} =>
        LET urls == CandidateUrls(atts[ai])
            oks  == {i \in 1..Len(tried) : tried[i].outcome = "ok"}
        IN  /\ Len(tried) <= Len(urls)
            /\ \A i \in 1..Len(tried) : tried[i].url = urls[i]
            /\ oks \subseteq {Len(tried)}
            /\ (pc = "returned" /\ oks = {}) => Len(tried) = Len(urls)
            /\ (pc = "returned" /\ dlResult # None) =>
                   /\ oks # {}
                   /\ files[dlResult] = [att |-> atts[ai].id, url |-> Last(tried).url,
                                         complete |-> TRUE]

\* C7: the third candidate succeeded after an error status and an exception, and its payload was written.
C7_Witness ==
    /\ pc = "returned"
    /\ Len(tried) = 3
    /\ tried[1].outcome = "status"
    /\ tried[2].outcome = "raises"
    /\ tried[3].outcome = "ok"
    /\ dlResult # None
    /\ Len(CandidateUrls(atts[ai])) > Len(tried)

AllFailed(t, urls) == Len(t) = Len(urls) /\ \A i \in 1..Len(t) : t[i].outcome # "ok"

\* C8: when every candidate fails, download_attachment returns None and writes
\* no file, the caller adds no entry to all_attachments and goes on with the
\* next attachment or page, and a run that ends has requested every
\* attachment list, resolved every attachment and handled every page.
C8_AllFailNotFound ==
    /\ [][(pc = "download" /\ pc' = "returned" /\ AllFailed(tried, CandidateUrls(atts[ai]))) =>
             (dlResult' = None /\ files' = files)]_vars
    /\ [][(pc = "returned" /\ AllFailed(tried, CandidateUrls(atts[ai]))) =>
             /\ all_attachments' = all_attachments
             /\ total_attachments' = total_attachments
             /\ atts[ai].id \in notFound'
             /\ pc' \in {"download", "att_list", "transpile", "save", "write_csv"}]_vars
    /\ [](pc = "done" =>
             /\ listed = PageIds(pages)
             /\ known \subseteq attempted
             /\ transpiled = PageIds(pages))

\* C8: after an earlier attachment of the run was handled, every candidate of
\* an attachment has failed, some with an error status and some with an
\* exception, and download_attachment has returned.
C8_Witness ==
    /\ pc = "returned"
    /\ attempted # {}
    /\ AllFailed(tried, CandidateUrls(atts[ai]))
    /\ \E i, j \in 1..Len(tried) : tried[i].outcome = "status" /\ tried[j].outcome = "raises"

\* C9: a failure on one page or attachment never ends the run: a run that has
\* ended has requested every attachment list, resolved every attachment and
\* handled every page.
C9_NoItemAbortsRun ==
    pc \in {"done", "aborted"} =>
        /\ listed = PageIds(pages)
        /\ known \subseteq attempted
        /\ transpiled = PageIds(pages)

\* C9: a run of two pages ended, by completing or by an exception.
C9_Witness ==
    /\ pc \in {"done", "aborted"}
    /\ Len(pages) = 2


(***************************************************************************)
(* Claims about clean_filename                                             *)
(***************************************************************************)

\* C1: clean_filename is idempotent: cleaning a cleaned name returns it unchanged.
C1_SanitizeIdempotent == sanPc = "twice" => sanAgain = sanOut

\* C1: a name longer than the limit whose cut falls after an underscore was cleaned twice.
C1_Witness ==
    /\ sanPc = "twice"
    /\ Len(sanIn) > NameLimit
    /\ sanIn[NameLimit] = "_"

\* C2: the cleaned name never begins or ends with '.' or '_'.
C2_NoEdgeDotUnderscore ==
    (sanPc # "in" /\ sanOut # <<>>) =>
        (sanOut[1] \notin StripChars /\ Last(sanOut) \notin StripChars)

\* C2: a name whose stripped form is longer than the limit was cleaned.
C2_Witness ==
    /\ sanPc = "once"
    /\ Len(Strip(ReplaceWhitespace(ReplaceInvalid(sanIn)), StripChars)) > NameLimit

Count(s, S) == Cardinality({i \in 1..Len(s) : s[i] \in S})

\* the number of maximal runs of whitespace in s
WhitespaceRuns(s) ==
    Cardinality({i \in 1..Len(s) : s[i] \in Whitespace /\ (i = 1 \/ s[i - 1] \notin Whitespace)})

\* C3: clean_filename returns, for every name, a name of at most 100 characters
\* with none of < > : " / \ | ? * and no whitespace; every maximal run of
\* whitespace has become exactly one underscore.
C3_SanitizeTotal ==
    sanPc # "in" =>
        /\ Len(sanOut) <= NameLimit
        /\ \A i \in 1..Len(sanOut) : sanOut[i] \notin (InvalidChars \cup Whitespace)
        /\ LET r == ReplaceInvalid(sanIn)
               c == ReplaceWhitespace(r)
           IN  /\ Len(c) = Len(r) - Count(r, Whitespace) + WhitespaceRuns(r)
               /\ Count(c, {"_"}) = Count(r, {"_"}) + WhitespaceRuns(r)

\* C3: an over-long name with a run of two whitespace characters and an invalid character was cleaned.
C3_Witness ==
    /\ sanPc = "once"
    /\ Len(sanIn) > NameLimit
    /\ \E i \in 1..(Len(sanIn) - 1) : sanIn[i] \in Whitespace /\ sanIn[i + 1] \in Whitespace
    /\ \E i \in 1..Len(sanIn) : sanIn[i] \in InvalidChars
    /\ Len(sanOut) = NameLimit

(***************************************************************************)
(* The markdown clean-up that follows the conversion to markdown           *)
(***************************************************************************)
NewLine == "\n"

\* re.sub(r'\n{3,}', '\n\n', markdown_content): of every run of three or more
\* newlines the first two are kept
RECURSIVE CollapseNewlinesFrom(_, _)
CollapseNewlinesFrom(s, i) ==
    IF i > Len(s) THEN <<>>
    ELSE IF i > 2 /\ s[i] = NewLine /\ s[i - 1] = NewLine /\ s[i - 2] = NewLine
         THEN CollapseNewlinesFrom(s, i + 1)
         ELSE <<s[i]>> \o CollapseNewlinesFrom(s, i + 1)

CollapseNewlines(s) == CollapseNewlinesFrom(s, 1)

\* re.sub(r'\\n', '\n', markdown_content): a backslash followed by the letter n
\* becomes a newline, scanning left to right
RECURSIVE UnescapeFrom(_, _)
UnescapeFrom(s, i) ==
    IF i > Len(s) THEN <<>>
    ELSE IF i < Len(s) /\ s[i] = "\\" /\ s[i + 1] = "n"
         THEN <<NewLine>> \o UnescapeFrom(s, i + 2)
         ELSE <<s[i]>> \o UnescapeFrom(s, i + 1)

UnescapeNewlines(s) == UnescapeFrom(s, 1)

\* the clean-up with the unescaping done before the collapsing
CleanMarkdownUnescapeFirst(v, s) ==
    IF v = "md"
    THEN Strip(CollapseNewlines(UnescapeNewlines(s)), Whitespace)
    ELSE Strip(CollapseNewlines(s), Whitespace)

\* the lines under "# Clean up markdown" of extract_page_content ("md") and of
\* process_content_to_markdown ("csv")
CleanMarkdown(v, s) ==
    IF v = "md"
    THEN Strip(UnescapeNewlines(CollapseNewlines(s)), Whitespace)
    ELSE Strip(CollapseNewlines(s), Whitespace)

(***************************************************************************)
(* Specification of the clean-up alone: a text is drawn, cleaned, and the  *)
(* result cleaned again.                                                   *)
(***************************************************************************)
NormAlphabet == {"a", NewLine, "\\", "n", " "}

NormInit ==
    /\ normPc = "in"
    /\ normIn \in SeqsUpTo(NormAlphabet, MaxTextLen)
    /\ normOut = <<>>
    /\ normAgain = <<>>
    /\ SanIdle
    /\ ExpIdle
    /\ TrIdle
    /\ HierIdle
    /\ FibIdle
    /\ GspIdle
    /\ variant \in {"md", "csv"}

\* markdown_content after the clean-up lines
Normalize ==
    /\ normPc = "in"
    /\ normOut' = CleanMarkdown(variant, normIn)
    /\ normPc' = "once"
    /\ UNCHANGED <<normIn, normAgain, sanVars, variant, expVars, trVars, hierVars, fibVars, gspVars>>

\* the clean-up lines applied to their own output
Renormalize ==
    /\ normPc = "once"
    /\ normAgain' = CleanMarkdown(variant, normOut)
    /\ normPc' = "twice"
    /\ UNCHANGED <<normIn, normOut, sanVars, variant, expVars, trVars, hierVars, fibVars, gspVars>>

NormNext == Normalize \/ Renormalize

SpecNormalize == NormInit /\ [][NormNext]_vars

(***************************************************************************)
(* Claims about the clean-up                                               *)
(***************************************************************************)

\* C10: the clean-up is idempotent: applied to its own output it returns the same text.
C10_NormalizeIdempotent == normPc = "twice" => normAgain = normOut

\* C10: a text with two newlines followed by an escaped newline was cleaned twice by extract_page_content.
C10_Witness ==
    /\ normPc = "twice"
    /\ variant = "md"
    /\ \E i \in 1..(Len(normIn) - 3) :
           /\ normIn[i] = NewLine /\ normIn[i + 1] = NewLine
           /\ normIn[i + 2] = "\\" /\ normIn[i + 3] = "n"

\* C11: the text the clean-up returns never holds three consecutive newlines and
\* neither begins nor ends with a whitespace character, whatever the input.
C11_NoTripleNewlineNoEdgeWhitespace ==
    normPc # "in" =>
        /\ \A i \in 1..(Len(normOut) - 2) :
               ~(normOut[i] = NewLine /\ normOut[i + 1] = NewLine /\ normOut[i + 2] = NewLine)
        /\ normOut # <<>> => (normOut[1] \notin Whitespace /\ Last(normOut) \notin Whitespace)

\* C11: extract_page_content cleaned a text in which an escaped newline follows two newlines.
C11_Witness ==
    /\ normPc = "once"
    /\ variant = "md"
    /\ \E i \in 2..(Len(normIn) - 4) :
           /\ normIn[i - 1] \notin Whitespace
           /\ normIn[i] = NewLine /\ normIn[i + 1] = NewLine
           /\ normIn[i + 2] = "\\" /\ normIn[i + 3] = "n"
           /\ normIn[i + 4] \notin Whitespace

(***************************************************************************)
(* Specification of the hierarchy alone: a page list is drawn together     *)
(* with a rearrangement of it; build_hierarchy and the sort of scrape_space *)
(* are applied to the one, then to the other.                              *)
(***************************************************************************)
MaxDocs == 3

DocLists == {l \in PageListsUpTo(MaxDocs) : \A i, j \in 1..Len(l) : i # j => l[i].id # l[j].id}

HierInit ==
    /\ hierPc = "in"
    /\ arrival \in DocLists
    /\ rearranged \in {l \in DocLists : Len(l) = Len(arrival) /\ PageIds(l) = PageIds(arrival)}
    /\ sorted_arrival = <<>>
    /\ sorted_rearranged = <<>>
    /\ index_arrival = <<>>
    /\ index_rearranged = <<>>
    /\ SanIdle
    /\ NormIdle
    /\ ExpIdle
    /\ TrIdle
    /\ FibIdle
    /\ GspIdle
    /\ variant = "md"

\* hierarchy = self.build_hierarchy(pages); sorted_pages = sorted(hierarchy.values(), ...)
SortArrival ==
    /\ hierPc = "in"
    /\ sorted_arrival' = SortItems(build_hierarchy(arrival))
    /\ hierPc' = "one"
    /\ UNCHANGED <<arrival, rearranged, sorted_rearranged, index_arrival, index_rearranged,
                   sanVars, normVars, variant, expVars, trVars, fibVars, gspVars>>

\* the same two statements for the rearranged list
SortRearranged ==
    /\ hierPc = "one"
    /\ sorted_rearranged' = SortItems(build_hierarchy(rearranged))
    /\ hierPc' = "both"
    /\ UNCHANGED <<arrival, rearranged, sorted_arrival, index_arrival, index_rearranged,
                   sanVars, normVars, variant, expVars, trVars, fibVars, gspVars>>

\* the page hierarchy of README.md, written from each of the two sorted lists
WriteHierarchyIndex ==
    /\ hierPc = "both"
    /\ index_arrival' = IndexEntries(sorted_arrival)
    /\ index_rearranged' = IndexEntries(sorted_rearranged)
    /\ hierPc' = "indexed"
    /\ UNCHANGED <<arrival, rearranged, sorted_arrival, sorted_rearranged,
                   sanVars, normVars, variant, expVars, trVars, fibVars, gspVars>>

HierNext == SortArrival \/ SortRearranged \/ WriteHierarchyIndex

SpecHierarchy == HierInit /\ [][HierNext]_vars

(***************************************************************************)
(* Claims about the hierarchy                                              *)
(***************************************************************************)
\* the positions in the ancestor list of a page of the ancestors that are in the page list
KeptAncestors(page, docs) ==
    {i \in 1..Len(page.ancestors) : page.ancestors[i].id \in PageIds(docs)}

\* the number of ancestors of a page that are not in the page list
DanglingCount(page, docs) == Len(page.ancestors) - Cardinality(KeptAncestors(page, docs))

\* the ids of a list of entries, in order
EntryIds(entries) == [i \in 1..Len(entries) |-> entries[i].page.id]

\* C18: every page of the list has an entry; its level is the length of its
\* ancestor list, its path the titles of the ancestors that are in the list,
\* root first, then its own title; without dangling ancestor the path has
\* level + 1 names, with one dangling ancestor it has level names.
C18_BuildDepthAndPath ==
    hierPc # "in" =>
        /\ Len(sorted_arrival) = Len(arrival)
        /\ \A k \in 1..Len(arrival) :
               \E e \in 1..Len(sorted_arrival) : sorted_arrival[e].page = arrival[k]
        /\ \A e \in 1..Len(sorted_arrival) :
               LET item == sorted_arrival[e]
                   anc  == item.page.ancestors
                   kept == KeptAncestors(item.page, arrival)
               IN  /\ item.level = Len(anc)
                   /\ Len(item.path) = Cardinality(kept) + 1
                   /\ Last(item.path) = item.page.title
                   /\ \A i \in kept :
                          item.path[Cardinality({j \in kept : j <= i})] = anc[i].title
                   /\ DanglingCount(item.page, arrival) = 0 => Len(item.path) = item.level + 1
                   /\ DanglingCount(item.page, arrival) = 1 => Len(item.path) = item.level

\* C18: the entries were built of a list that holds a page with two ancestors of which one is not in the list.
C18_Witness ==
    /\ hierPc # "in"
    /\ \E e \in 1..Len(sorted_arrival) :
           /\ sorted_arrival[e].level = 2
           /\ DanglingCount(sorted_arrival[e].page, arrival) = 1
           /\ Len(sorted_arrival[e].path) = 2

\* C19 as stated: the level of every entry is the length of its path less one.
C19_DepthIsPathLengthLessOne ==
    hierPc # "in" =>
        \A e \in 1..Len(sorted_arrival) :
            sorted_arrival[e].level = Len(sorted_arrival[e].path) - 1

\* C19: the level of every entry is the length of its path less one plus the
\* number of its ancestors that are not in the page list.
C19_DepthIsPathLengthPlusDangling ==
    hierPc # "in" =>
        \A e \in 1..Len(sorted_arrival) :
            sorted_arrival[e].level =
                Len(sorted_arrival[e].path) - 1 + DanglingCount(sorted_arrival[e].page, arrival)

\* C19: an entry was built for a page whose parent is not in the list.
C19_Witness ==
    /\ hierPc # "in"
    /\ \E e \in 1..Len(sorted_arrival) :
           /\ DanglingCount(sorted_arrival[e].page, arrival) > 0
           /\ sorted_arrival[e].level >= Len(sorted_arrival[e].path)

\* C20: two arrival orders of the same pages give, after the sort by
\* (level, path), the same sequence of page ids.
C20_OrderIndependentOfArrival ==
    hierPc = "both" => EntryIds(sorted_arrival) = EntryIds(sorted_rearranged)

\* C20: two different arrival orders holding two pages of the same level were both sorted.
C20_Witness ==
    /\ hierPc = "both"
    /\ arrival # rearranged
    /\ \E i, j \in 1..Len(sorted_arrival) :
           /\ i # j
           /\ sorted_arrival[i].level = sorted_arrival[j].level
    /\ EntryIds(sorted_arrival) # [i \in 1..Len(arrival) |-> arrival[i].id]

(***************************************************************************)
(* The transpiler: process_confluence_content ("md") and the rewriting     *)
(* part of process_content_to_markdown ("csv").                            *)
(*                                                                         *)
(* A parsed body (soup) is a list of nodes; a node is a record with the    *)
(* tag, the attributes and the children the transpiler reads.  A text is a *)
(* list of pieces whose concatenation is the string.  For a structured     *)
(* macro, title and language are the list of the texts of the parameters   *)
(* of that name (none or one), body tells which body element it has, kids  *)
(* are the children of its ac:rich-text-body and text is the content of    *)
(* its ac:plain-text-body.  For ac:image and ac:link, ri tells whether an  *)
(* ri:attachment child is there and filename is its ri:filename, "" when   *)
(* the attribute is missing.                                               *)
(***************************************************************************)
Blank ==
    [tag |-> "", name |-> "", title |-> <<>>, language |-> <<>>, body |-> "none",
     kids |-> <<>>, ri |-> FALSE, filename |-> "", text |-> <<>>, href |-> <<>>, alt |-> ""]

MacroTag == "ac:structured-macro"
ImageTag == "ac:image"
LinkTag  == "ac:link"

TextNode(t) == [Blank EXCEPT !.tag = "text", !.text = t]

Image(ri, filename) == [Blank EXCEPT !.tag = ImageTag, !.ri = ri, !.filename = filename]

Link(ri, filename, t) ==
    [Blank EXCEPT !.tag = LinkTag, !.ri = ri, !.filename = filename, !.text = t]

Anchor(href, t) == [Blank EXCEPT !.tag = "a", !.href = href, !.text = t]

Macro(name, title, language, body, kids, t) ==
    [Blank EXCEPT !.tag = MacroTag, !.name = name, !.title = title, !.language = language,
                  !.body = body, !.kids = kids, !.text = t]

Paragraph(kids) == [Blank EXCEPT !.tag = "p", !.kids = kids]

\* soup.new_tag('img', src=rel_path, alt=filename)
Img(src, alt) == [Blank EXCEPT !.tag = "img", !.href = src, !.alt = alt]

\* BeautifulSoup(f"<div>{...}</div>", 'html.parser')
Div(t) == [Blank EXCEPT !.tag = "div", !.text = t]

\* BeautifulSoup(f"<pre>{code_block}</pre>", 'html.parser')
Pre(t) == [Blank EXCEPT !.tag = "pre", !.text = t]

\* a markup declaration of unknown keyword, "<![x y]>": html.parser rejects
\* it or reads it as a comment, depending on the version of the library
Rejected == [Blank EXCEPT !.tag = "<!["]

\* the result of a call that raised
Raised == [raised |-> TRUE, soup |-> <<>>]

\* rel_path = f"attachments/{filename}"
RelPath(filename) == <<"attachments/", filename>>

\* the elements of a list of nodes and all their descendants, in document order
RECURSIVE find_all(_)
find_all(nodes) ==
    IF nodes = <<>> THEN <<>>
    ELSE <<nodes[1]>> \o find_all(nodes[1].kids) \o find_all(Tail(nodes))

\* element.get_text(): the texts below the element, in document order
RECURSIVE get_text(_)
get_text(n) ==
    LET below == [i \in 1..Len(n.kids) |-> get_text(n.kids[i])]
        Concat[i \in 0..Len(below)] == IF i = 0 THEN <<>> ELSE Concat[i - 1] \o below[i]
        params == (IF n.title = <<>> THEN <<>> ELSE n.title[1])
                  \o (IF n.language = <<>> THEN <<>> ELSE n.language[1])
    IN  IF n.tag = MacroTag
        THEN params \o (IF n.body = "plain" THEN n.text ELSE Concat[Len(below)])
        ELSE IF n.tag \in {"text", "a", LinkTag, "div", "pre"} THEN n.text
        ELSE Concat[Len(below)]

\* the text of the children of an element
BodyText(kids) == get_text(Paragraph(kids))

\* a function applied to the children of a node
MapKids(n, F(_)) == [n EXCEPT !.kids = [i \in 1..Len(n.kids) |-> F(n.kids[i])]]

\* "# Handle Confluence image macros" of process_confluence_content
RECURSIVE ReplaceImages(_, _)
ReplaceImages(n, map) ==
    IF n.tag = ImageTag
    THEN IF n.ri
         THEN IF n.filename # "" /\ n.filename \in map
              THEN Img(RelPath(n.filename), n.filename)
              ELSE TextNode(IF n.filename # "" THEN <<"[Image: ", n.filename, "]">>
                            ELSE <<"[Image: Missing]">>)
         ELSE n
    ELSE MapKids(n, LAMBDA k : ReplaceImages(k, map))

\* "# Handle attachment macros" of process_confluence_content
RECURSIVE ReplaceLinks(_, _)
ReplaceLinks(n, map) ==
    IF n.tag = LinkTag
    THEN IF n.ri /\ n.filename # "" /\ n.filename \in map
         THEN Anchor(RelPath(n.filename), IF get_text(n) # <<>> THEN get_text(n) ELSE <<n.filename>>)
         ELSE n
    ELSE MapKids(n, LAMBDA k : ReplaceLinks(k, map))

\* "# Handle images - keep as placeholders for now" of process_content_to_markdown
RECURSIVE PlaceholderImages(_)
PlaceholderImages(n) ==
    IF n.tag = ImageTag
    THEN IF n.ri
         THEN TextNode(<<"[Image: ", IF n.filename = "" THEN "unknown" ELSE n.filename, "]">>)
         ELSE TextNode(<<"[Image: Missing]">>)
    ELSE MapKids(n, PlaceholderImages)

\* "# Handle attachment links" of process_content_to_markdown
RECURSIVE MarkdownLinks(_)
MarkdownLinks(n) ==
    IF n.tag = LinkTag
    THEN IF n.ri
         THEN LET filename == IF n.filename = "" THEN "unknown" ELSE n.filename
                  link_text == IF get_text(n) # <<>> THEN get_text(n) ELSE <<filename>>
              IN  TextNode(<<"[">> \o link_text \o <<"](", filename, ")">>)
         ELSE n
    ELSE MapKids(n, MarkdownLinks)

\* macro.find('ac:parameter', {'ac:name': 'title'}): the first title parameter
\* below the macro, its own or that of a macro inside its body
FirstTitle(macro) ==
    LET holders == SelectSeq(<<macro>> \o find_all(macro.kids),
                             LAMBDA n : n.tag = MacroTag /\ n.title # <<>>)
    IN  IF holders = <<>> THEN <<>> ELSE holders[1].title

\* macro.find('ac:parameter', {'ac:name': 'language'})
FirstLanguage(macro) ==
    LET holders == SelectSeq(<<macro>> \o find_all(macro.kids),
                             LAMBDA n : n.tag = MacroTag /\ n.language # <<>>)
    IN  IF holders = <<>> THEN <<>> ELSE holders[1].language

\* macro.find(<body tag>): the first body element of the kind below the macro
\* (none or one), given as the list of the macros that hold it
FirstBody(macro, kind) ==
    LET holders == SelectSeq(<<macro>> \o find_all(macro.kids),
                             LAMBDA n : n.tag = MacroTag /\ n.body = kind)
    IN  IF holders = <<>> THEN <<>> ELSE <<holders[1]>>

\* info_text = f"\n> **{title}**\n> {content}\n"
InfoText(title, content) == <<"\n> **">> \o title \o <<"**\n> ">> \o content \o <<"\n">>

\* the three backquotes of a code fence (a string of the model cannot hold the character)
Fence == "<fence>"

\* code_block = f"```{language}\n{code_content}\n```"
CodeBlock(language, code_content) ==
    <<Fence>> \o language \o <<"\n">> \o code_content \o <<"\n", Fence>>

TocText == <<"[Table of Contents]">>

\* macro_text = f"[Macro: {macro_name}]"
MacroMarker(macro_name) == <<"[Macro: ", macro_name, "]">>

\* what one structured macro is replaced with
MacroReplacement(macro) ==
    LET title_param == FirstTitle(macro)
        rich        == FirstBody(macro, "rich")
        plain       == FirstBody(macro, "plain")
        language_param == FirstLanguage(macro)
    IN  CASE macro.name = "info" ->
               Div(InfoText(IF title_param # <<>> THEN title_param[1] ELSE <<"Info">>,
                            IF rich # <<>> THEN BodyText(rich[1].kids) ELSE <<>>))
          [] macro.name = "code" ->
               Pre(CodeBlock(IF language_param # <<>> THEN language_param[1] ELSE <<>>,
                             IF plain # <<>> THEN plain[1].text ELSE <<>>))
          [] macro.name = "toc" -> Div(TocText)
          [] OTHER ->
               Div(MacroMarker(macro.name)
                   \o (IF rich # <<>> THEN <<" ">> \o BodyText(rich[1].kids) ELSE <<>>))

\* the loop over soup.find_all('ac:structured-macro'): the list is in document
\* order, so a macro is replaced, with the text of its body, before the macros
\* inside its body; those are then replaced in a subtree that is no longer
\* part of the soup
RECURSIVE ReplaceMacros(_)
ReplaceMacros(n) ==
    IF n.tag = MacroTag THEN MacroReplacement(n) ELSE MapKids(n, ReplaceMacros)

\* "# Remove remaining Confluence-specific elements": ac:parameter and
\* ac:plain-text-body are gone with the macros, ri:attachment is removed from
\* the links and images still there
RECURSIVE Decompose(_)
Decompose(n) ==
    IF n.tag \in {ImageTag, LinkTag}
    THEN [n EXCEPT !.ri = FALSE, !.filename = ""]
    ELSE MapKids(n, Decompose)

\* href.startswith('/')
StartsWithSlash(href) == href # <<>> /\ href[1] = "/"

\* the address of the site, of which self.base_url is a page
BaseOrigin == "https://site"

\* urljoin raises ValueError on "//[": the bracket opens an IPv6 host that is
\* never closed
UrlJoinRaises(href) == Len(href) >= 2 /\ href[1] = "/" /\ href[2] = "/["

\* urljoin(self.base_url, href) for an href that starts with "/"
urljoin(href) == <<BaseOrigin>> \o href

\* "# Convert relative links to absolute"
RECURSIVE AbsoluteLinks(_)
AbsoluteLinks(n) ==
    IF n.tag = "a"
    THEN IF StartsWithSlash(n.href) THEN [n EXCEPT !.href = urljoin(n.href)] ELSE n
    ELSE MapKids(n, AbsoluteLinks)

\* a list of nodes with a step applied to each
Each(nodes, F(_)) == [i \in 1..Len(nodes) |-> F(nodes[i])]

\* BeautifulSoup(content_html, 'html.parser') raises when the parser rejects a declaration
ParserRaises(nodes, rejects) ==
    rejects /\ \E i \in 1..Len(find_all(nodes)) : find_all(nodes)[i] = Rejected

\* process_confluence_content(content_html, page_id, output_dir, attachments_map)
process_confluence_content(html, map, rejects) ==
    IF html = <<>> THEN [raised |-> FALSE, soup |-> <<>>]
    ELSE IF ParserRaises(html, rejects) THEN Raised
    ELSE LET images == Each(html, LAMBDA n : ReplaceImages(n, map))
             links  == Each(images, LAMBDA n : ReplaceLinks(n, map))
             macros == Each(links, ReplaceMacros)
             rest   == Each(macros, Decompose)
             all    == find_all(rest)
         IN  IF \E i \in 1..Len(all) :
                    all[i].tag = "a" /\ StartsWithSlash(all[i].href) /\ UrlJoinRaises(all[i].href)
             THEN Raised
             ELSE [raised |-> FALSE, soup |-> Each(rest, AbsoluteLinks)]

\* process_content_to_markdown(content_html) up to the call of md()
process_content_to_markdown(html, rejects) ==
    IF html = <<>> THEN [raised |-> FALSE, soup |-> <<>>]
    ELSE IF ParserRaises(html, rejects) THEN Raised
    ELSE LET macros == Each(html, ReplaceMacros)
             images == Each(macros, PlaceholderImages)
             links  == Each(images, MarkdownLinks)
         IN  [raised |-> FALSE, soup |-> Each(links, Decompose)]

(***************************************************************************)
(* Specification of the transpiler alone: a body and a map are drawn and   *)
(* the body is processed.  The bodies hold one element nested up to        *)
(* MaxDepth deep.                                                          *)
(***************************************************************************)
MaxDepth == 2

RelHref == <<"/", "wiki/x">>
AbsHref == <<"https://other/", "x">>
BadHref == <<"/", "/[">>

\* the elements without children
Leaves ==
    { TextNode(<<"hello">>),
      Image(FALSE, ""), Image(TRUE, ""), Image(TRUE, "d.png"),
      Link(FALSE, "", <<"page">>), Link(TRUE, "d.png", <<>>), Link(TRUE, "d.png", <<"doc">>),
      Anchor(RelHref, <<"rel">>), Anchor(AbsHref, <<"abs">>), Anchor(BadHref, <<"bad">>),
      Rejected }

Titles == {<<>>, << <<"Note">> >>}

\* the structured macros without ac:rich-text-body
Bodiless ==
    {Macro("info", t, <<>>, "none", <<>>, <<>>) : t \in Titles}
    \cup {Macro("code", <<>>, l, "plain", <<>>, <<"x=1">>) : l \in {<<>>, << <<"py">> >>}}
    \cup {Macro("code", <<>>, l, "none", <<>>, <<>>) : l \in {<<>>, << <<"py">> >>}}
    \cup {Macro("toc", <<>>, <<>>, "none", <<>>, <<>>)}
    \cup {Macro("panel", t, <<>>, "none", <<>>, <<>>) : t \in Titles}
    \cup {Macro("", <<>>, <<>>, "none", <<>>, <<>>)}

\* the lists of at most one of the given elements
KidLists(elements) == {<<>>} \cup {<<e>> : e \in elements}

\* the elements with the given lists of children: macros with a rich-text
\* body, named info, named otherwise, without name, and paragraphs
Containers(lists) ==
    {Macro("info", t, <<>>, "rich", k, <<>>) : t \in Titles, k \in lists}
    \cup {Macro("panel", t, <<>>, "rich", k, <<>>) : t \in Titles, k \in lists}
    \cup {Macro("", <<>>, <<>>, "rich", k, <<>>) : k \in lists}
    \cup {Paragraph(k) : k \in lists}

RECURSIVE Elements(_)
Elements(d) ==
    IF d = 0 THEN Leaves \cup Bodiless
    ELSE Elements(d - 1) \cup Containers(KidLists(Elements(d - 1)))

TrInit ==
    /\ trPc = "in"
    /\ content_html \in KidLists(Elements(MaxDepth))
    /\ attachments_map \in {{}, {"d.png"}}
    /\ processed = <<>>
    /\ SanIdle
    /\ NormIdle
    /\ ExpIdle
    /\ HierIdle
    /\ FibIdle
    /\ GspIdle
    /\ variant \in {"md", "csv"}

\* processed_html = self.process_confluence_content(content_html, page_id,
\* output_dir, attachments_map) of extract_page_content, and the part of
\* process_content_to_markdown before md()
Transpile(rejects) ==
    /\ trPc = "in"
    /\ processed' = IF variant = "md"
                    THEN process_confluence_content(content_html, attachments_map, rejects)
                    ELSE process_content_to_markdown(content_html, rejects)
    /\ trPc' = "out"
    /\ UNCHANGED <<content_html, attachments_map, sanVars, normVars, variant, expVars,
                   hierVars, fibVars, gspVars>>

TrNext == \E rejects \in BOOLEAN : Transpile(rejects)

SpecTranspile == TrInit /\ [][TrNext]_vars

(***************************************************************************)
(* Claims about the transpiler                                             *)
(***************************************************************************)
\* the call has returned
Returned == trPc = "out" /\ ~processed.raised

\* the elements of the body given and of the soup returned, in document order
InputNodes == find_all(content_html)
OutputNodes == find_all(processed.soup)

\* the elements that are not inside a structured macro, in document order
RECURSIVE OutsideMacros(_)
OutsideMacros(nodes) ==
    IF nodes = <<>> THEN <<>>
    ELSE <<nodes[1]>>
         \o (IF nodes[1].tag = MacroTag THEN <<>> ELSE OutsideMacros(nodes[1].kids))
         \o OutsideMacros(Tail(nodes))

\* the pieces occur, one after the other, in the text
Contains(text, pieces) ==
    \E i \in 1..(Len(text) - Len(pieces) + 1) : SubSeq(text, i, i + Len(pieces) - 1) = pieces

\* the element is the info, code or toc form, or carries the marker, of the macro
HasFormOf(r, macro) ==
    CASE macro.name = "info" -> r.tag = "div" /\ r.text # <<>> /\ r.text[1] = "\n> **"
      [] macro.name = "code" -> r.tag = "pre"
      [] macro.name = "toc"  -> r = Div(TocText)
      [] OTHER -> r.tag = "div" /\ Len(r.text) >= 3
                  /\ SubSeq(r.text, 1, 3) = MacroMarker(macro.name)

\* C12: every structured macro of the body, nested or not, named or not, has
\* its rewrite in the output: there are as many rewrites as macros, and for
\* each macro one of its form.
C12_NoMacroDropped ==
    Returned =>
        LET macros   == SelectSeq(InputNodes, LAMBDA n : n.tag = MacroTag)
            rewrites == SelectSeq(OutputNodes, LAMBDA n : n.tag \in {"div", "pre"})
        IN  /\ Len(rewrites) = Len(macros)
            /\ \A i \in 1..Len(macros) :
                   \E j \in 1..Len(rewrites) : HasFormOf(rewrites[j], macros[i])

\* C12: a body with a structured macro inside the body of another, named panel, was processed.
C12_Witness ==
    /\ Returned
    /\ \E i \in 1..Len(InputNodes) :
           /\ InputNodes[i].tag = MacroTag
           /\ \E k \in 1..Len(InputNodes[i].kids) :
                  InputNodes[i].kids[k].tag = MacroTag /\ InputNodes[i].kids[k].name = "panel"

\* C13: process_confluence_content turns every ac:image that has an
\* ri:attachment into an img of attachments/<filename> with the filename as
\* alt when the filename is a key of the map, into the text [Image: <filename>]
\* when it is not, into [Image: Missing] when there is no filename; no such
\* ac:image is left in the output.
C13_ImageEmbedsRewritten ==
    (Returned /\ variant = "md") =>
        /\ \A i \in 1..Len(InputNodes) :
               LET n == InputNodes[i]
               IN  (n.tag = ImageTag /\ n.ri) =>
                       IF n.filename # "" /\ n.filename \in attachments_map
                       THEN \E j \in 1..Len(OutputNodes) :
                                OutputNodes[j] = Img(RelPath(n.filename), n.filename)
                       ELSE IF n.filename # ""
                       THEN \E j \in 1..Len(OutputNodes) :
                                Contains(OutputNodes[j].text, <<"[Image: ", n.filename, "]">>)
                       ELSE \E j \in 1..Len(OutputNodes) :
                                Contains(OutputNodes[j].text, <<"[Image: Missing]">>)
        /\ Len(SelectSeq(OutputNodes, LAMBDA n : n.tag = ImageTag))
               <= Len(SelectSeq(InputNodes, LAMBDA n : n.tag = ImageTag /\ ~n.ri))

\* C13: process_confluence_content processed a body with an image of a resolved attachment inside a macro body.
C13_Witness ==
    /\ Returned
    /\ variant = "md"
    /\ attachments_map = {"d.png"}
    /\ \E i \in 1..Len(InputNodes) :
           /\ InputNodes[i].tag = MacroTag
           /\ InputNodes[i].kids = <<Image(TRUE, "d.png")>>

\* C14: process_confluence_content turns every ac:link to an attachment into
\* an anchor to attachments/<filename>, with the link text or else the
\* filename as text, when the filename is a key of the map, and when it is
\* not the output has no anchor to it.
C14_AttachmentLinksRewritten ==
    (Returned /\ variant = "md") =>
        \A i \in 1..Len(InputNodes) :
            LET n == InputNodes[i]
            IN  (n.tag = LinkTag /\ n.ri /\ n.filename # "") =>
                    IF n.filename \in attachments_map
                    THEN \E j \in 1..Len(OutputNodes) :
                             OutputNodes[j] = Anchor(RelPath(n.filename),
                                                     IF n.text # <<>> THEN n.text
                                                     ELSE <<n.filename>>)
                    ELSE \A j \in 1..Len(OutputNodes) :
                             ~(OutputNodes[j].tag = "a" /\ OutputNodes[j].href = RelPath(n.filename))

\* C14: process_confluence_content processed a body with a link to a resolved attachment inside a macro body.
C14_Witness ==
    /\ Returned
    /\ variant = "md"
    /\ attachments_map = {"d.png"}
    /\ \E i \in 1..Len(InputNodes) :
           /\ InputNodes[i].tag = MacroTag
           /\ InputNodes[i].kids = <<Link(TRUE, "d.png", <<"doc">>)>>

\* C15: every info macro that is replaced in the soup becomes a block whose
\* first line is, in bold, its own title parameter, or Info when it has none,
\* and whose second line quotes its body; with title Note and body hello the
\* block is the bold Note and the quoted hello.
C15_InfoBlockquote ==
    Returned =>
        \A i \in 1..Len(OutsideMacros(content_html)) :
            LET n     == OutsideMacros(content_html)[i]
                title == IF n.title # <<>> THEN n.title[1] ELSE <<"Info">>
                head  == <<"\n> **">> \o title \o <<"**\n> ">>
            IN  (n.tag = MacroTag /\ n.name = "info") =>
                    /\ \E j \in 1..Len(OutputNodes) :
                           /\ OutputNodes[j].tag = "div"
                           /\ Len(OutputNodes[j].text) > Len(head)
                           /\ SubSeq(OutputNodes[j].text, 1, Len(head)) = head
                           /\ Last(OutputNodes[j].text) = "\n"
                    /\ (n.title = << <<"Note">> >> /\ n.kids = <<TextNode(<<"hello">>)>>) =>
                           \E j \in 1..Len(OutputNodes) :
                               OutputNodes[j] = Div(<<"\n> **", "Note", "**\n> ", "hello", "\n">>)

\* C15: an info macro without title parameter whose body holds a macro with a title parameter was processed.
C15_Witness ==
    /\ Returned
    /\ Len(content_html) = 1
    /\ content_html[1].tag = MacroTag
    /\ content_html[1].name = "info"
    /\ content_html[1].title = <<>>
    /\ \E k \in 1..Len(content_html[1].kids) :
           content_html[1].kids[k].tag = MacroTag /\ content_html[1].kids[k].title # <<>>

\* C16: no anchor of the output has an href that begins with "/"; an anchor
\* of the body that has one has it joined to the base address, an anchor
\* that has another href is in the output as it was.
C16_NoRelativeHref ==
    Returned =>
        /\ \A j \in 1..Len(OutputNodes) :
               OutputNodes[j].tag = "a" => ~StartsWithSlash(OutputNodes[j].href)
        /\ \A i \in 1..Len(OutsideMacros(content_html)) :
               LET n == OutsideMacros(content_html)[i]
               IN  n.tag = "a" =>
                       \E j \in 1..Len(OutputNodes) :
                           OutputNodes[j] = IF StartsWithSlash(n.href)
                                            THEN Anchor(urljoin(n.href), n.text)
                                            ELSE n

\* C16: process_content_to_markdown processed a body with an anchor whose href begins with "/".
C16_Witness ==
    /\ Returned
    /\ variant = "csv"
    /\ \E i \in 1..Len(OutsideMacros(content_html)) :
           OutsideMacros(content_html)[i] = Anchor(RelHref, <<"rel">>)

\* C17: the call returns for every body, and returns no content for an empty one.
C17_NeverRaises ==
    trPc = "out" =>
        /\ ~processed.raised
        /\ content_html = <<>> => processed.soup = <<>>

\* C17: process_confluence_content was called with a body that holds an anchor whose href is "//[".
C17_Witness ==
    /\ trPc = "out"
    /\ variant = "md"
    /\ \E i \in 1..Len(OutsideMacros(content_html)) :
           OutsideMacros(content_html)[i] = Anchor(BadHref, <<"bad">>)
    /\ processed.raised

(***************************************************************************)
(* Claims about the index of the page hierarchy                            *)
(***************************************************************************)
\* the page of the list that has the id
PageOf(docs, id) == docs[CHOOSE k \in 1..Len(docs) : docs[k].id = id]

\* C21: the index lists every page once, with the number of its ancestors as
\* indentation, after each of its ancestors that is in the list, and the same
\* for every arrival order; root, child and grandchild are listed in that
\* order with levels 0, 1, 2.
C21_IndexOrder ==
    hierPc = "indexed" =>
        /\ Len(index_arrival) = Len(arrival)
        /\ \A k \in 1..Len(arrival) :
               Cardinality({i \in 1..Len(index_arrival) : index_arrival[i].id = arrival[k].id}) = 1
        /\ \A i \in 1..Len(index_arrival) :
               LET page == PageOf(arrival, index_arrival[i].id)
               IN  /\ index_arrival[i].level = Len(page.ancestors)
                   /\ \A a \in KeptAncestors(page, arrival) :
                          \E j \in 1..(i - 1) : index_arrival[j].id = page.ancestors[a].id
        /\ [i \in 1..Len(index_arrival) |-> index_arrival[i].id]
               = [i \in 1..Len(index_rearranged) |-> index_rearranged[i].id]
        /\ PageIds(arrival) = {"p1", "p2", "p4"} =>
               [i \in 1..3 |-> <<index_arrival[i].id, index_arrival[i].level>>]
                   = << <<"p1", 0>>, <<"p2", 1>>, <<"p4", 2>> >>

\* C21: the index was written for grandchild, child and root arrived in that order, and for another order.
C21_Witness ==
    /\ hierPc = "indexed"
    /\ [i \in 1..Len(arrival) |-> arrival[i].id] = <<"p4", "p2", "p1">>
    /\ rearranged # arrival
    /\ Len(index_arrival) = 3

(***************************************************************************)
(* Claims about the files and the index of the export run                  *)
(***************************************************************************)
\* the file a link of the index names: an empty segment ("//") adds no level
LinkTarget(link) == SelectSeq(link, LAMBDA n : n # <<>>)

\* C22: when scrape_space has ended, the link of every entry of the index
\* names the file that save_page wrote for the page of the entry.
C22_IndexLinksToSavedFile ==
    (pc = "done" /\ variant = "md" /\ index.written) =>
        \A i \in 1..Len(index.entries) :
            LET target == LinkTarget(index.entries[i].link)
            IN  /\ target \in DOMAIN files
                /\ "page" \in DOMAIN files[target]
                /\ files[target].page = index.entries[i].id

\* C22: scrape_space ended after the save of a page had failed, and the index lists the page.
C22_Witness ==
    /\ pc = "done"
    /\ variant = "md"
    /\ index.written
    /\ Len(saved_files) < Len(pages)
    /\ Len(index.entries) = Len(pages)

\* the cleaned titles of the ancestors on the path of an entry, those that
\* clean to nothing left out
CleanedDirs(item) ==
    LinkTarget([i \in 1..(Len(item.path) - 1) |-> clean_filename(item.path[i])])

\* C23 as stated: save_page writes below the directories named by the cleaned
\* segments before the last, and the page's own title is the base name of the file.
C23_LastSegmentIsTitle ==
    [][(pc = "save" /\ Len(saved_files') = Len(saved_files) + 1) =>
          LET item == sorted_pages[si]
              dest == Last(saved_files')
          IN  /\ SubSeq(dest, 1, Len(dest) - 1) = CleanedDirs(item)
              /\ Last(dest) = item.page.title \o MdSuffix]_vars

\* C23: save_page writes below the directories named by the cleaned segments
\* before the last, to the file named by the cleaned own title followed by
\* ".md", and that file then holds the page.
C23_DestinationPath ==
    [][(pc = "save" /\ Len(saved_files') = Len(saved_files) + 1) =>
          LET item == sorted_pages[si]
              dest == Last(saved_files')
          IN  /\ SubSeq(dest, 1, Len(dest) - 1) = CleanedDirs(item)
              /\ Last(dest) = clean_filename(item.page.title) \o MdSuffix
              /\ dest \in DOMAIN files'
              /\ files'[dest] = [page |-> item.page.id]]_vars

\* C23: the page titled a:b, whose parent is in the list, has been saved below the directory of the parent.
C23_Witness ==
    /\ variant = "md"
    /\ \E p \in DOMAIN files :
           /\ Len(p) = 2
           /\ "page" \in DOMAIN files[p]
           /\ files[p].page = "p2"

\* C24: all_attachments changes only when scrape_space gets a path from
\* download_attachment; the entry under the exact filename of that attachment is
\* then the returned path, whether or not the filename had an entry, and every
\* other entry stays; a download that returns None changes nothing.
C24_LastWriteWins ==
    [][IF pc = "returned" /\ variant = "md" /\ dlResult # None
       THEN LET filename == atts[ai].title
            IN  /\ DOMAIN all_attachments' = DOMAIN all_attachments \cup {filename}
                /\ all_attachments'[filename] = dlResult
                /\ \A k \in DOMAIN all_attachments \ {filename} :
                       all_attachments'[k] = all_attachments[k]
       ELSE all_attachments' = all_attachments]_vars

\* C24: the two attachments named l.p of two pages have both been downloaded
\* and share one entry.
C24_Witness ==
    /\ variant = "md"
    /\ total_attachments = 2
    /\ DOMAIN all_attachments = {<<"l", ".", "p">>}
    /\ {"a1", "a2"} \subseteq attempted
    /\ notFound = {}

\* f"- [{filename}](./attachments/{filename})": the target of the line of
\* README.md for a key of all_attachments, relative to the space directory
AttachmentLink(filename) == <<AttachmentsDir, filename>>

\* C25: at the end of scrape_space, the target attachments/<filename> listed in
\* README.md for each key of all_attachments is the path recorded under that key,
\* and a file of that path has been written.
C25_ReferencesPointAtFiles ==
    (pc = "done" /\ variant = "md" /\ index.written) =>
        \A filename \in index.files :
            /\ AttachmentLink(filename) = all_attachments[filename]
            /\ AttachmentLink(filename) \in DOMAIN files

\* C25: the attachment named "l p" has been downloaded and README.md lists it.
C25_Witness ==
    /\ pc = "done" /\ variant = "md" /\ index.written
    /\ <<"l", " ", "p">> \in index.files
    /\ "a3" \in attempted \ notFound

IsPageFile(fs, p) == "page" \in DOMAIN fs[p]

\* C28: at the end of scrape_space, the number of attachments README.md
\* reports is the number of attachments it lists and the number of attachment
\* files written, and the number of pages it reports is the number of page files written.
C28_CountsAgree ==
    (pc = "done" /\ variant = "md" /\ index.written) =>
        /\ index.attachments = Cardinality(index.files)
        /\ index.attachments = Cardinality({p \in DOMAIN files : IsAttachmentFile(files, p)})
        /\ index.pages = Cardinality({p \in DOMAIN files : IsPageFile(files, p)})

\* C28: a run has ended in which the two attachments named l.p were both
\* downloaded and every page was saved.
C28_Witness ==
    /\ pc = "done" /\ variant = "md" /\ index.written
    /\ {"a1", "a2"} \subseteq attempted \ notFound
    /\ Len(saved_files) = Len(pages)

(***************************************************************************)
(* prepare_for_fibery: the export of one space, flattened                  *)
(***************************************************************************)
\* The files below input_dir as relative paths, a path being the list of its
\* names.  The exporter writes README.md, a.md for a page titled a, a/b.md for
\* its child b, a_b.md for a page titled a_b, and attachments/l.p; "a b.md" is
\* a file of another origin.  No directory is deeper than one level, and the
\* path of input_dir itself does not hold the word attachments.
FibUniverse ==
    { << ReadmeName >>,
      << <<"a", ".", "m", "d">> >>,
      << <<"b", ".", "m", "d">> >>,
      << <<"a", "_", "b", ".", "m", "d">> >>,
      << <<"a", " ", "b", ".", "m", "d">> >>,
      << <<"a">>, <<"b", ".", "m", "d">> >>,
      << AttachmentsDir, <<"l", ".", "p">> >> }

FibTrees == {t \in SUBSET FibUniverse : Cardinality(t) <= MaxFiles}

\* file.endswith(suffix)
EndsWith(s, suffix) ==
    /\ Len(s) >= Len(suffix)
    /\ SubSeq(s, Len(s) - Len(suffix) + 1, Len(s)) = suffix

\* sub in s, for two strings
InString(sub, s) ==
    \E i \in 1..(Len(s) - Len(sub) + 1) : SubSeq(s, i, i + Len(sub) - 1) = sub

\* the directory a file is in
DirOf(path) == SubSeq(path, 1, Len(path) - 1)

\* os.path.relpath(src_path, input_dir) as a string: the names joined with "/"
RECURSIVE relpath(_)
relpath(path) ==
    IF path = <<>> THEN <<>>
    ELSE IF Len(path) = 1 THEN path[1]
    ELSE path[1] \o <<"/">> \o relpath(Tail(path))

\* s.replace(old, new) for one character each
StrReplace(s, old, new) == [i \in 1..Len(s) |-> IF s[i] = old THEN new ELSE s[i]]

\* rel_path.replace('\\', '_').replace('/', '_').replace(' ', '_')
safe_name(rel_path) ==
    StrReplace(StrReplace(StrReplace(rel_path, "\\", "_"), "/", "_"), " ", "_")

\* if file.endswith('.md') and file != 'README.md'
IsPage(path) == EndsWith(Last(path), MdSuffix) /\ Last(path) # ReadmeName

\* the files the first loop copies: if 'attachments' in root ... if not file.endswith('.md')
IsAttachmentSource(path) ==
    /\ InString(AttachmentsDir, relpath(DirOf(path)))
    /\ ~EndsWith(Last(path), MdSuffix)

\* while os.path.exists(dst): new_name = f"{name}_{counter}{ext}"; counter += 1
RECURSIVE FibDedupe(_, _, _)
FibDedupe(dst_dir, file, counter) ==
    LET parts    == SplitExt(file)
        new_name == parts[1] \o <<"_">> \o Decimal(counter) \o parts[2]
    IN  IF new_name \in DOMAIN dst_dir THEN FibDedupe(dst_dir, file, counter + 1) ELSE new_name

\* dst = os.path.join(attachments_dir, file), counted up when the name is taken
FibDst(dst_dir, file) ==
    IF file \in DOMAIN dst_dir THEN FibDedupe(dst_dir, file, 1) ELSE file

\* the first loop: shutil.copy2(src, dst) for every attachment source.  The
\* sources of FibUniverse are in one directory, so their names differ and the
\* order of the walk makes no difference.
RECURSIVE CopyAll(_, _)
CopyAll(srcs, dst_dir) ==
    IF srcs = {} THEN dst_dir
    ELSE LET src == CHOOSE f \in srcs : TRUE
         IN  CopyAll(srcs \ {src}, Put(dst_dir, FibDst(dst_dir, Last(src)), src))

FibInit ==
    /\ SanIdle
    /\ NormIdle
    /\ ExpIdle
    /\ TrIdle
    /\ HierIdle
    /\ GspIdle
    /\ variant = "md"
    /\ fibPc = "start"
    /\ input_dir \in FibTrees
    /\ attachments_dir = EmptyMap /\ attachment_count = 0
    /\ walk_root = <<>> /\ walked = {}
    /\ pages_dir = EmptyMap /\ page_count = 0
    /\ summary = NoIndex

\* os.makedirs of the output directories, then the loop over the attachments
CopyAttachments ==
    /\ fibPc = "start"
    /\ LET srcs == {f \in input_dir : IsAttachmentSource(f)}
       IN  /\ attachments_dir' = CopyAll(srcs, attachments_dir)
           /\ attachment_count' = attachment_count + Cardinality(srcs)
    /\ fibPc' = "pages"
    /\ UNCHANGED <<input_dir, walk_root, walked, pages_dir, page_count, summary,
                   sanVars, normVars, variant, expVars, trVars, hierVars, gspVars>>

\* the loop over the pages, one file of the directory os.walk is at: a page is
\* written to pages/<safe_name> with open(dst_path, 'w') and counted; the
\* change of its content is left out
WalkFile(src_path) ==
    /\ fibPc = "pages"
    /\ src_path \in input_dir \ walked
    /\ DirOf(src_path) = walk_root
    /\ walked' = walked \cup {src_path}
    /\ IF IsPage(src_path)
       THEN /\ pages_dir' = Put(pages_dir, safe_name(relpath(src_path)), src_path)
            /\ page_count' = page_count + 1
       ELSE UNCHANGED <<pages_dir, page_count>>
    /\ UNCHANGED <<fibPc, input_dir, attachments_dir, attachment_count, walk_root, summary,
                   sanVars, normVars, variant, expVars, trVars, hierVars, gspVars>>

\* os.walk goes on to a directory it has not been at, in any order
WalkDir(root) ==
    /\ fibPc = "pages"
    /\ \A f \in input_dir \ walked : DirOf(f) # walk_root
    /\ \E f \in input_dir \ walked : DirOf(f) = root
    /\ walk_root' = root
    /\ UNCHANGED <<fibPc, input_dir, attachments_dir, attachment_count, walked, pages_dir,
                   page_count, summary,
                   sanVars, normVars, variant, expVars, trVars, hierVars, gspVars>>

\* README.md of the output with the two counts
WriteSummary ==
    /\ fibPc = "pages"
    /\ walked = input_dir
    /\ summary' = [written |-> TRUE, pages |-> page_count, attachments |-> attachment_count]
    /\ fibPc' = "done"
    /\ UNCHANGED <<input_dir, attachments_dir, attachment_count, walk_root, walked, pages_dir,
                   page_count,
                   sanVars, normVars, variant, expVars, trVars, hierVars, gspVars>>

FibNext ==
    \/ CopyAttachments
    \/ \E src_path \in FibUniverse : WalkFile(src_path)
    \/ \E root \in {DirOf(f) : f \in FibUniverse} : WalkDir(root)
    \/ WriteSummary

SpecFibery == FibInit /\ [][FibNext]_vars

\* C26: at the end of prepare_for_fibery every page of the input tree has a file
\* of its own in pages/: each page is the source of a file of pages/, and the
\* number of files of pages/ is the number of pages reported.
C26_UniqueFlattenedNames ==
    fibPc = "done" =>
        /\ \A f \in input_dir : IsPage(f) => \E n \in DOMAIN pages_dir : pages_dir[n] = f
        /\ Cardinality(DOMAIN pages_dir) = summary.pages

\* C26: a tree with the page a/b.md and the page a_b.md has been flattened.
C26_Witness ==
    /\ fibPc = "done"
    /\ << <<"a">>, <<"b", ".", "m", "d">> >> \in input_dir
    /\ << <<"a", "_", "b", ".", "m", "d">> >> \in input_dir

(***************************************************************************)
(* get_space_pages and get_available_spaces: paging through the results    *)
(***************************************************************************)
PagingFunctions == {"get_space_pages", "get_available_spaces"}

\* limit = 50 in get_space_pages, 'limit': 200 in get_available_spaces
limit(f) == IF f = "get_space_pages" THEN 50 ELSE 200

\* a loop that asks for the same start again
SameStart(s, l) == s

\* start += limit
NextStart(s, l) == s + l

\* the n results the server has from offset s on, each named by its place in
\* the list of the server
ServerResults(s, n) == [i \in 1..n |-> s + i]

GspInit ==
    /\ SanIdle
    /\ NormIdle
    /\ ExpIdle
    /\ TrIdle
    /\ HierIdle
    /\ FibIdle
    /\ variant = "md"
    /\ fn = "none" /\ gspPc = "call"
    /\ start = 0 /\ all_pages = <<>> /\ returned = <<>>
    /\ requests = <<>> /\ batches = <<>>

\* all_pages = []; start = 0
Call(f) ==
    /\ gspPc = "call"
    /\ fn' = f
    /\ all_pages' = <<>>
    /\ start' = 0
    /\ gspPc' = "request"
    /\ UNCHANGED <<returned, requests, batches,
                   sanVars, normVars, variant, expVars, trVars, hierVars, fibVars>>

\* One turn of the while loop.  The server answers the request for start with
\* status 200 and n results ("ok"), with another status ("status"), or
\* session.get or response.json() raises ("raises"), which nothing catches.
\* The server gives at most MaxBatches answers of limit results.
Request(status, n) ==
    /\ gspPc = "request"
    /\ n <= limit(fn)
    /\ status # "ok" => n = 0
    /\ (status = "ok" /\ n = limit(fn)) => Len(requests) < MaxBatches
    /\ LET results == ServerResults(start, n)
       IN  /\ requests' = Append(requests, start)
           /\ batches' = Append(batches, [status |-> status, results |-> results])
           /\ IF status = "raises"
              THEN /\ gspPc' = "raised"
                   /\ UNCHANGED <<start, all_pages, returned>>
              ELSE IF status # "ok"
              THEN /\ gspPc' = "returned"
                   /\ returned' = IF fn = "get_space_pages" THEN all_pages ELSE <<>>
                   /\ UNCHANGED <<start, all_pages>>
              ELSE IF results = <<>>
              THEN /\ gspPc' = "returned"
                   /\ returned' = all_pages
                   /\ UNCHANGED <<start, all_pages>>
              ELSE /\ all_pages' = all_pages \o results
                   /\ IF Len(results) < limit(fn)
                      THEN /\ gspPc' = "returned"
                           /\ returned' = all_pages'
                           /\ start' = start
                      ELSE /\ gspPc' = "request"
                           /\ returned' = returned
                           /\ start' = NextStart(start, limit(fn))
    /\ UNCHANGED <<fn, sanVars, normVars, variant, expVars, trVars, hierVars, fibVars>>

GspNext ==
    \/ \E f \in PagingFunctions : Call(f)
    \/ \E status \in {"ok", "status", "raises"}, n \in 0..limit("get_available_spaces") :
           Request(status, n)

SpecPaging == GspInit /\ [][GspNext]_vars

\* The loop runs in one thread and goes from one turn to the next as soon as
\* session.get has come back; the server answers every request.
SpecPagingFair == SpecPaging /\ WF_vars(GspNext)

\* the results of the answers with status 200, in the order of the answers
RECURSIVE Received(_)
Received(bs) ==
    IF bs = <<>> THEN <<>>
    ELSE (IF bs[1].status = "ok" THEN bs[1].results ELSE <<>>) \o Received(Tail(bs))

IsFull(b) == b.status = "ok" /\ Len(b.results) = limit(fn)

\* what C27 says of every state of a call
C27_Paging ==
    /\ Len(batches) = Len(requests)
    /\ \A i \in 1..Len(requests) : requests[i] = (i - 1) * limit(fn)
    /\ \A i \in 1..(Len(batches) - 1) : IsFull(batches[i])
    /\ (gspPc = "request" /\ batches # <<>>) => IsFull(Last(batches))
    /\ gspPc = "returned" =>
           /\ ~IsFull(Last(batches))
           /\ returned = IF fn = "get_available_spaces" /\ Last(batches).status # "ok"
                         THEN <<>>
                         ELSE Received(batches)
           /\ fn = "get_space_pages" => \A k \in 1..Len(returned) : returned[k] = k

\* C27: a call of get_space_pages asks for start = 0, 50, 100, ..., sends no
\* request after the first answer that is short, empty or not 200, returns the
\* results of all answers received, in the order of the server and each once,
\* also when the last answer failed (get_available_spaces then returns the
\* empty list), and every call comes to an end once the server gives such an answer.
C27_PagingTerminates ==
    /\ []C27_Paging
    /\ <>(gspPc \in {"returned", "raised"})

\* C27: get_space_pages has returned the 100 pages of two full answers after
\* the third request failed.
C27_Witness ==
    /\ fn = "get_space_pages"
    /\ gspPc = "returned"
    /\ requests = <<0, 50, 100>>
    /\ Last(batches).status = "status"
    /\ Len(returned) = 100

====
